---------------------------- MODULE Spec2Model ----------------------------
(***************************************************************************)
(* A model of the Plyr overlay plugin (src/js/plugins/overlay.js): the     *)
(* Overlay object, the browser's two frame sources (requestAnimationFrame  *)
(* and requestVideoFrameCallback), the event listeners it binds and the    *)
(* draw callback it invokes.                                               *)
(*                                                                         *)
(* JavaScript runs every handler to completion, so each operation is one   *)
(* action.  Foreign code runs inside a handler in one place: render()      *)
(* calls the draw callback.  What the callback does to the overlay while   *)
(* it runs is an input of the action (a CallbackAct): nothing, or one call *)
(* of setFrameData, setRenderer, clear, _stopLoop or destroy.              *)
(*                                                                         *)
(* Modelling scope: the draw callback returns normally, it does not        *)
(* re-enter setup/resize/render/_startLoop, and it does not stop or        *)
(* destroy the overlay while setup() is still running; listeners of the    *)
(* 'overlayframe' event do not call the overlay; player.elements.wrapper   *)
(* and player.isVideo do not change during the life of the overlay;        *)
(* player.media is always present.  The pixels of the surface are not      *)
(* modelled.  getVideoRect() is a pure function of the wrapper's size and  *)
(* the video's intrinsic size: it is modelled with the arithmetic of       *)
(* JavaScript numbers and examined on its own (SpecRect), for sizes that   *)
(* are whole numbers of pixels.                                            *)
(***************************************************************************)
EXTENDS Integers, Sequences, FiniteSets, TLC


\* ------------------------------------------------------------------ bounds
MaxPending == 2     \* scheduling registrations pending at one time
MaxSide == 3        \* sizes 1..MaxSide are tried next to the sample sizes

\* ------------------------------------------------------------------ values
Null == 0                      \* JavaScript null
FrameIds == {1, 2}             \* two frame identifiers
Functions == {1, 2}            \* two draw callbacks (function objects)
NotAFunction == -1             \* a value that is neither a function nor null
RendererArgs == Functions \cup {Null, NotAFunction}
is_function(v) == v \in Functions

VARIABLES
  \* the Overlay object (constructor, lines 15-43)
  canvas, ctx, enabled, ready, frameData, activeFrameId, renderer,
  _rafId, _rvfcId, _running,
  \* the browser and the host player
  rafPending,             \* ids registered with requestAnimationFrame, not yet fired
  vfcPending,             \* ids registered with requestVideoFrameCallback, not yet fired
  listeners,              \* event listeners of the overlay that are registered
  isVideo,                \* player.isVideo
  wrapper,                \* is.element(player.elements.wrapper)
  useVideoFrameCallback,  \* player.config.overlay.useVideoFrameCallback
  vfcApi,                 \* player.media exposes request/cancelVideoFrameCallback
  \* what getVideoRect() reads and returns
  wrapperRect,            \* wrapper.getBoundingClientRect(): [width, height]
  video,                  \* player.media: [videoWidth, videoHeight]
  rect,                   \* what the latest call of getVideoRect() returned
  \* history (not program state).  A behaviour is watched through one lens:
  \* the history of the other lenses stays as it starts.
  lens,                   \* "data" | "kept" | "loop" | "ops" | "resize" | "clear"
                          \* | "public" | "rect"
  trail,                  \* data, kept: the latest stores and renders of frame data
  slotDelivered,          \* data: the payload in the slot was given to a draw callback
  loopLast,               \* loop: the latest operation, if it was a start, a stop or a tick
  chosen,                 \* loop: the strategy the latest start chose, "none" once stopped
  stopped,                \* loop: a stop has returned and no start has followed
  note,                   \* ops: the latest operation of the host
  life                    \* resize, clear, public: the latest operation, with the
                          \* state it found

objVars == <<canvas, ctx, enabled, ready, frameData, activeFrameId, renderer,
             _rafId, _rvfcId, _running>>
hostVars == <<rafPending, vfcPending, listeners>>
envVars == <<isVideo, wrapper, useVideoFrameCallback, vfcApi>>
histVars == <<lens, trail, slotDelivered, loopLast, chosen, stopped, note,
              life>>
geoVars == <<wrapperRect, video, rect>>
vars == <<objVars, hostVars, envVars, geoVars, histVars>>

\* --------------------------------------------------- the state as a record
\* The operations below are functions from state record to state record, so
\* that a method can call another.  The field out is what the running handler
\* has done so far: every handler starts from NoOut.
NoOut ==
  [warn |-> "none", threw |-> FALSE,
   ran |-> FALSE,         \* a tick passed its _running test
   notified |-> FALSE,    \* 'overlayframe' was triggered
   renders |-> 0,         \* calls of render() that reached the surface
   called |-> FALSE, id |-> Null, data |-> Null,   \* the draw callback's call
   did |-> "none",        \* what the draw callback called on the overlay
   strategy |-> "none",   \* the loop _startLoop started
   rereg |-> "none",      \* the source a tick registered its next callback with
   log |-> << >>]         \* in order: "size" (lines 145-149), "clearRect",
                          \* "draw" (line 316), "notify" (line 227)

Fields ==
  {"canvas", "ctx", "enabled", "ready", "frameData", "activeFrameId",
   "renderer", "_rafId", "_rvfcId", "_running", "rafPending", "vfcPending",
   "listeners"}

This ==
  [canvas |-> canvas, ctx |-> ctx, enabled |-> enabled, ready |-> ready,
   frameData |-> frameData, activeFrameId |-> activeFrameId,
   renderer |-> renderer, _rafId |-> _rafId, _rvfcId |-> _rvfcId,
   _running |-> _running, rafPending |-> rafPending, vfcPending |-> vfcPending,
   listeners |-> listeners, out |-> NoOut]

\* The object as the constructor leaves it before it looks at the
\* configuration (lines 16-37).
Blank ==
  [canvas |-> FALSE, ctx |-> FALSE, enabled |-> FALSE, ready |-> FALSE,
   frameData |-> Null, activeFrameId |-> Null, renderer |-> Null,
   _rafId |-> Null, _rvfcId |-> Null, _running |-> FALSE,
   rafPending |-> {}, vfcPending |-> {}, listeners |-> {}, out |-> NoOut]

\* A fresh registration id: ids are opaque, so the least id that is neither
\* pending nor still held by the object stands for "a new one".
NewId(pending, held) ==
  CHOOSE n \in 1..(Cardinality(pending) + 2) :
    /\ n \notin pending \cup {held}
    /\ \A m \in 1..(n - 1) : m \in pending \cup {held}

\* States that differ only in the names of the ids are one state: the ids
\* pending with a source are renamed 1..k, the id the object holds first,
\* and an id it holds that is no longer pending is renamed k+1.
Renamed(pending, held) ==
  LET k == Cardinality(pending)
  IN [pending |-> 1..k,
      held |-> IF held = Null THEN Null
               ELSE IF held \in pending THEN 1 ELSE k + 1]

Norm(s) ==
  LET r == Renamed(s.rafPending, s._rafId)
      v == Renamed(s.vfcPending, s._rvfcId)
  IN [s EXCEPT !.rafPending = r.pending, !._rafId = r.held,
               !.vfcPending = v.pending, !._rvfcId = v.held]

\* ------------------------------------------------------------- operations

\* setFrameData(frameId, detections), lines 278-281
setFrameData_keepsFirst(s, frameId, detections) ==
  IF s.frameData # Null THEN s
  ELSE [s EXCEPT !.activeFrameId = frameId, !.frameData = detections]

setFrameData(s, frameId, detections) ==
  [s EXCEPT !.activeFrameId = frameId, !.frameData = detections]

setRenderer_unchecked(s, callback) ==
  [s EXCEPT !.renderer = callback]

\* setRenderer(callback), lines 287-293
setRenderer(s, callback) ==
  IF ~is_function(callback) /\ callback # Null
    THEN [s EXCEPT !.out.warn = "Overlay renderer must be a function or null"]
    ELSE [s EXCEPT !.renderer = callback]

clear_surfaceOnly(s) ==
  [s EXCEPT !.out.log = IF s.ctx /\ s.canvas /\ wrapper
                          THEN Append(@, "clearRect") ELSE @]

\* clear(), lines 327-338
clear(s) ==
  [s EXCEPT !.frameData = Null, !.activeFrameId = Null,
            !.out.log = IF s.ctx /\ s.canvas /\ wrapper
                          THEN Append(@, "clearRect") ELSE @]

\* _rvfcLoop(video), lines 220-239: the first registration
_rvfcLoop(s) ==
  IF ~s._running THEN s
  ELSE LET n == NewId(s.vfcPending, s._rvfcId)
       IN [s EXCEPT !._rvfcId = n, !.vfcPending = @ \cup {n},
                    !.out.strategy = "rvfc"]

\* _rafLoop(), lines 244-254: the first registration
_rafLoop(s) ==
  IF ~s._running THEN s
  ELSE LET n == NewId(s.rafPending, s._rafId)
       IN [s EXCEPT !._rafId = n, !.rafPending = @ \cup {n},
                    !.out.strategy = "raf"]

\* the strategy test of _startLoop, line 209
preferVideoFrames == useVideoFrameCallback /\ vfcApi

\* _startLoop(), lines 201-215
_startLoop(s) ==
  IF s._running THEN s
  ELSE LET r == [s EXCEPT !._running = TRUE]
       IN IF preferVideoFrames THEN _rvfcLoop(r) ELSE _rafLoop(r)

\* _stopLoop(), lines 259-271
_stopLoop(s) ==
  LET a == [s EXCEPT !._running = FALSE]
      b == IF a._rafId # Null
             THEN [a EXCEPT !.rafPending = @ \ {a._rafId}, !._rafId = Null]
             ELSE a
  IN IF b._rvfcId # Null /\ vfcApi
       THEN [b EXCEPT !.vfcPending = @ \ {b._rvfcId}, !._rvfcId = Null]
       ELSE b

\* _bindListeners(), lines 116-123
_bindListeners(s) ==
  [s EXCEPT !.listeners = @ \cup {"resize", "enterfullscreen", "exitfullscreen"}]

\* _unbindListeners(), lines 128-130
_unbindListeners(s) ==
  [s EXCEPT !.listeners = @ \ {"resize"}]

\* destroy(), lines 343-365
destroy(s) ==
  [_unbindListeners(_stopLoop(s)) EXCEPT
     !.canvas = FALSE, !.ctx = FALSE, !.frameData = Null,
     !.activeFrameId = Null, !.renderer = Null, !.enabled = FALSE,
     !.ready = FALSE]

\* What the draw callback does to the overlay while it runs.
NoAct == [call |-> "none", arg |-> Null, data |-> Null]

\* The call of the draw callback, line 316: it is given the frame data and the
\* frame id, and may call the overlay before it returns.
draw(s, act) ==
  LET c == [s EXCEPT !.out.called = TRUE, !.out.id = s.activeFrameId,
                     !.out.data = s.frameData, !.out.did = act.call,
                     !.out.log = Append(@, "draw")]
  IN CASE act.call = "setFrameData" -> setFrameData(c, act.arg, act.data)
       [] act.call = "setRenderer" -> setRenderer(c, act.arg)
       [] act.call = "clear" -> clear(c)
       [] act.call = "_stopLoop" -> _stopLoop(c)
       [] act.call = "destroy" -> destroy(c)
       [] OTHER -> c

\* render(), lines 299-322
render_keepsData(s, act) ==
  IF ~s.ctx \/ ~s.canvas THEN s
  ELSE IF ~wrapper THEN s
  ELSE LET r == [s EXCEPT !.out.renders = @ + 1,
                          !.out.log = Append(@, "clearRect")]
       IN IF is_function(r.renderer) THEN draw(r, act) ELSE r

render_clearsWhenCalled(s, act) ==
  IF ~s.ctx \/ ~s.canvas THEN s
  ELSE IF ~wrapper THEN s
  ELSE LET r == [s EXCEPT !.out.renders = @ + 1,
                          !.out.log = Append(@, "clearRect")]
       IN IF is_function(r.renderer)
            THEN [draw(r, act) EXCEPT !.frameData = Null,
                                      !.activeFrameId = Null]
            ELSE r

render(s, act) ==
  IF ~s.ctx \/ ~s.canvas THEN s
  ELSE IF ~wrapper THEN s
  ELSE LET r == [s EXCEPT !.out.renders = @ + 1,
                          !.out.log = Append(@, "clearRect")]
           d == IF is_function(r.renderer) THEN draw(r, act) ELSE r
       IN [d EXCEPT !.frameData = Null, !.activeFrameId = Null]

resize_noRender(s, act) ==
  IF ~s.canvas THEN s
  ELSE IF ~wrapper THEN s
  ELSE IF ~s.ctx THEN [s EXCEPT !.out.threw = TRUE]
  ELSE [s EXCEPT !.out.log = Append(@, "size")]

\* resize(), lines 135-153.  With a canvas but no context line 149 throws a
\* TypeError, which ends the handler that called resize().
resize(s, act) ==
  IF ~s.canvas THEN s
  ELSE IF ~wrapper THEN s
  ELSE IF ~s.ctx THEN [s EXCEPT !.out.threw = TRUE]
  ELSE render([s EXCEPT !.out.log = Append(@, "size")], act)

\* setup(), lines 55-111; gotCtx: canvas.getContext('2d') returned a context
setup(s, gotCtx, act) ==
  IF ~isVideo
    THEN [s EXCEPT !.out.warn = "Overlay is only supported for video"]
  ELSE IF s.ready THEN s
  ELSE IF ~wrapper
    THEN [s EXCEPT !.out.warn = "Overlay setup failed: no video wrapper found"]
  ELSE LET r == resize([s EXCEPT !.canvas = TRUE, !.ctx = gotCtx], act)
       IN IF r.out.threw THEN r
          ELSE _startLoop([_bindListeners(r) EXCEPT !.enabled = TRUE,
                                                    !.ready = TRUE])

loop_once(s, id, act) ==
  LET s0 == [s EXCEPT !.rafPending = @ \ {id}]
  IN IF ~s0._running THEN s0
     ELSE render([s0 EXCEPT !.out.ran = TRUE], act)

\* the tick callback of _rafLoop, lines 247-251, fired for registration id
loop(s, id, act) ==
  LET s0 == [s EXCEPT !.rafPending = @ \ {id}]
  IN IF ~s0._running THEN s0
     ELSE LET r == render([s0 EXCEPT !.out.ran = TRUE], act)
              n == NewId(r.rafPending, r._rafId)
          IN [r EXCEPT !._rafId = n, !.rafPending = @ \cup {n},
                       !.out.rereg = "raf"]

callback_unguarded(s, id, act) ==
  LET s0 == [s EXCEPT !.vfcPending = @ \ {id}]
      r == render([s0 EXCEPT !.out.ran = TRUE, !.out.notified = TRUE,
                             !.out.log = Append(@, "notify")], act)
      n == NewId(r.vfcPending, r._rvfcId)
  IN [r EXCEPT !._rvfcId = n, !.vfcPending = @ \cup {n},
               !.out.rereg = "rvfc"]

\* the tick callback of _rvfcLoop, lines 223-236, fired for registration id.
\* It registers again on the video element it was created for (line 235);
\* vfcApi tells what the element that is player.media now exposes, which
\* _startLoop (line 209) and _stopLoop (line 267) look at.
callback(s, id, act) ==
  LET s0 == [s EXCEPT !.vfcPending = @ \ {id}]
  IN IF ~s0._running THEN s0
     ELSE LET r == render([s0 EXCEPT !.out.ran = TRUE, !.out.notified = TRUE,
                                     !.out.log = Append(@, "notify")], act)
              n == NewId(r.vfcPending, r._rvfcId)
          IN [r EXCEPT !._rvfcId = n, !.vfcPending = @ \cup {n},
                       !.out.rereg = "rvfc"]

\* ------------------------------------------------------------------ numbers
\* A JavaScript number is an IEEE-754 double.  Here a double is
\* [neg, m, e], standing for (-1)^neg * m * 2^e, with m a natural number of
\* exactly 53 bits, or zero (m = << >>, e = 0).  A natural number is the
\* sequence of its digits in base 2^15, least significant first, without
\* leading zeros.  The sizes the geometry works on are far from the ends of
\* the exponent range: nothing overflows, nothing is subnormal.
Base == 32768
LimbBits == 15
Precision == 53

\* The value of v in {F(v) : v \in {x}} is computed once, before F.
Only(S) == CHOOSE v \in S : TRUE

RECURSIVE BigNorm(_)
BigNorm(a) ==
  IF a = << >> THEN a
  ELSE IF a[Len(a)] = 0 THEN BigNorm(SubSeq(a, 1, Len(a) - 1))
  ELSE a

RECURSIVE BigOfInt(_)
BigOfInt(n) ==
  IF n = 0 THEN << >> ELSE <<n % Base>> \o BigOfInt(n \div Base)

Limb(a, i) == IF i <= Len(a) THEN a[i] ELSE 0

RECURSIVE BigAddFrom(_, _, _, _)
BigAddFrom(a, b, i, carry) ==
  IF i > Len(a) /\ i > Len(b)
    THEN IF carry = 0 THEN << >> ELSE <<carry>>
    ELSE LET t == Limb(a, i) + Limb(b, i) + carry
         IN <<t % Base>> \o BigAddFrom(a, b, i + 1, t \div Base)

BigAdd(a, b) == BigAddFrom(a, b, 1, 0)

\* a - b, for a >= b
RECURSIVE BigSubFrom(_, _, _, _)
BigSubFrom(a, b, i, borrow) ==
  IF i > Len(a) THEN << >>
  ELSE LET t == a[i] - Limb(b, i) - borrow
       IN IF t < 0 THEN <<t + Base>> \o BigSubFrom(a, b, i + 1, 1)
                   ELSE <<t>> \o BigSubFrom(a, b, i + 1, 0)

BigSub(a, b) == BigNorm(BigSubFrom(a, b, 1, 0))

\* -1, 0 or 1 as a is less than, equal to or greater than b
RECURSIVE BigCmpFrom(_, _, _)
BigCmpFrom(a, b, i) ==
  IF i = 0 THEN 0
  ELSE IF a[i] < b[i] THEN -1
  ELSE IF a[i] > b[i] THEN 1
  ELSE BigCmpFrom(a, b, i - 1)

BigCmp(a, b) ==
  IF Len(a) < Len(b) THEN -1
  ELSE IF Len(a) > Len(b) THEN 1
  ELSE BigCmpFrom(a, b, Len(a))

\* a * n, for 0 <= n < Base
RECURSIVE BigMulSmallFrom(_, _, _, _)
BigMulSmallFrom(a, n, i, carry) ==
  IF i > Len(a)
    THEN IF carry = 0 THEN << >> ELSE <<carry>>
    ELSE LET t == a[i] * n + carry
         IN <<t % Base>> \o BigMulSmallFrom(a, n, i + 1, t \div Base)

BigMulSmall(a, n) == BigNorm(BigMulSmallFrom(a, n, 1, 0))

\* a * Base^k
BigShlLimbs(a, k) ==
  IF a = << >> THEN a ELSE [i \in 1..k |-> 0] \o a

\* a * 2^k
BigShl(a, k) ==
  BigShlLimbs(BigMulSmall(a, 2 ^ (k % LimbBits)), k \div LimbBits)

RECURSIVE BigMulFrom(_, _, _)
BigMulFrom(a, b, j) ==
  IF j > Len(b) THEN << >>
  ELSE BigAdd(BigShlLimbs(BigMulSmall(a, b[j]), j - 1),
              BigMulFrom(a, b, j + 1))

BigMul(a, b) == BigMulFrom(a, b, 1)

RECURSIVE IntBits(_)
IntBits(n) == IF n = 0 THEN 0 ELSE 1 + IntBits(n \div 2)

\* the number of bits of a
BigBits(a) ==
  IF a = << >> THEN 0
  ELSE LimbBits * (Len(a) - 1) + IntBits(a[Len(a)])

BigOdd(a) == a # << >> /\ a[1] % 2 = 1

Min(i, j) == IF i < j THEN i ELSE j

\* Long division, digit by digit, for a divisor d whose leading digit is at
\* least Base / 2 and a remainder r < d * Base.  The leading two digits of r
\* by the leading digit of d are the digit of the quotient or up to two more.
Trial(r, d) ==
  IF Len(r) < Len(d) THEN 0
  ELSE Min((Limb(r, Len(d) + 1) * Base + r[Len(d)]) \div d[Len(d)], Base - 1)

RECURSIVE Lower(_, _, _)
Lower(r, d, q) ==
  IF BigCmp(BigMulSmall(d, q), r) > 0 THEN Lower(r, d, q - 1) ELSE q

\* the remainder r with the digit x brought down
Down(x, r) == IF r = << >> /\ x = 0 THEN << >> ELSE <<x>> \o r

\* the digits i, i-1, .. 1 of n brought down in turn to the remainder r
RECURSIVE BigDivFrom(_, _, _, _)
BigDivFrom(n, d, i, r) ==
  IF i = 0 THEN [q |-> << >>, r |-> r]
  ELSE Only({Only({[q |-> Append(rest.q, digit), r |-> rest.r] :
                     rest \in {BigDivFrom(n, d, i - 1,
                                 BigSub(Down(n[i], r),
                                        BigMulSmall(d, digit)))}}) :
               digit \in {Lower(Down(n[i], r), d, Trial(Down(n[i], r), d))}})

\* The quotient q of n by d, and the remainder as r / dd = n / d - q.  The
\* leading digits of n, one fewer than d has, are less than d: the division
\* starts with them as the remainder.
Normalised(n, d, s) ==
  Only({Only({[q |-> BigNorm(dm.q), r |-> dm.r, dd |-> ds] :
                dm \in {IF Len(ns) < Len(ds)
                          THEN [q |-> << >>, r |-> ns]
                          ELSE BigDivFrom(ns, ds, Len(ns) - Len(ds) + 1,
                                 SubSeq(ns, Len(ns) - Len(ds) + 2, Len(ns)))}}) :
          ns \in {BigShl(n, s)}, ds \in {BigShl(d, s)}})

BigDivMod(n, d) == Normalised(n, d, LimbBits - IntBits(d[Len(d)]))

Max(i, j) == IF i > j THEN i ELSE j

Zero == [neg |-> FALSE, m |-> << >>, e |-> 0]

\* The double nearest to (n / d) * 2^e, ties to the even one.  With k the
\* shift that makes the quotient of n * 2^k by d a number of 53 bits, it is
\* that quotient, or one more when the remainder is over half of d, or is
\* exactly half of d and the quotient is odd.
Carried(neg, m, e) ==
  IF BigBits(m) > Precision
    THEN [neg |-> neg, m |-> BigShl(<<1>>, Precision - 1), e |-> e + 1]
    ELSE [neg |-> neg, m |-> m, e |-> e]

Nearest(neg, q, half, e) ==
  Carried(neg,
          IF half > 0 \/ (half = 0 /\ BigOdd(q)) THEN BigAdd(q, <<1>>) ELSE q,
          e)

RoundRatio(neg, n, d, e) ==
  Only({Nearest(neg, dm.q, BigCmp(BigShl(dm.r, 1), dm.dd), e) :
          dm \in {BigDivMod(n, d)}})

RoundAt(neg, n, d, e, k) ==
  Only({RoundRatio(neg, nk, dk, e - k) :
          nk \in {BigShl(n, Max(k, 0))}, dk \in {BigShl(d, Max(-k, 0))}})

RoundFrom(neg, n, d, e, k) ==
  IF BigCmp(BigShl(n, Max(k, 0)), BigShl(d, Precision - 1 + Max(-k, 0))) >= 0
    THEN RoundAt(neg, n, d, e, k)
    ELSE RoundAt(neg, n, d, e, k + 1)

Round(neg, n, d, e) ==
  Only({IF nn = << >> THEN Zero
        ELSE RoundFrom(neg, nn, dd, e,
                       Precision - 1 - (BigBits(nn) - BigBits(dd))) :
          nn \in {n}, dd \in {d}})

\* the double of an integer 0 <= i < 2^30
FromInt(i) == Round(FALSE, BigOfInt(i), <<1>>, 0)

\* a / b, the division of lines 173, 174 and 188
FDiv(a, b) == Round(a.neg # b.neg, a.m, b.m, a.e - b.e)

\* a * b, the multiplication of line 184
FMul(a, b) == Round(a.neg # b.neg, BigMul(a.m, b.m), <<1>>, a.e + b.e)

\* the mantissas of a and b over their common exponent
Aligned(a, b) ==
  [a |-> BigShl(a.m, Max(a.e - b.e, 0)), b |-> BigShl(b.m, Max(b.e - a.e, 0)),
   e |-> IF a.e < b.e THEN a.e ELSE b.e]

Difference(p) ==
  Round(BigCmp(p.a, p.b) < 0,
        IF BigCmp(p.a, p.b) < 0 THEN BigSub(p.b, p.a) ELSE BigSub(p.a, p.b),
        <<1>>, p.e)

\* a - b for a, b >= 0, the subtraction of lines 185 and 190
FSub(a, b) == Difference(Aligned(a, b))

\* a / 2, exact
FHalf(a) == IF a.m = << >> THEN a ELSE [a EXCEPT !.e = @ - 1]

Greater(p) == BigCmp(p.a, p.b) > 0

\* a > b for a, b >= 0, the comparison of line 181
FGt(a, b) == Greater(Aligned(a, b))

\* ----------------------------------------------------------------- geometry
DefaultVideoWidth == 1920
DefaultVideoHeight == 1080

NoRect == [x |-> Zero, y |-> Zero, w |-> Zero, h |-> Zero, none |-> TRUE]

\* lines 181-186: the video fills the height, bars left and right
pillarbox(cw, ch, drawW) ==
  [x |-> FHalf(FSub(cw, drawW)), y |-> Zero, w |-> drawW, h |-> ch]

\* lines 187-192: the video fills the width, bars above and below
letterbox(cw, ch, drawH) ==
  [x |-> Zero, y |-> FHalf(FSub(ch, drawH)), w |-> cw, h |-> drawH]

\* lines 173-195
contain(cw, ch, videoRatio) ==
  IF Only({FGt(containerRatio, videoRatio) :
             containerRatio \in {FDiv(cw, ch)}})
    THEN Only({pillarbox(cw, ch, drawW) : drawW \in {FMul(ch, videoRatio)}})
    ELSE Only({letterbox(cw, ch, drawH) : drawH \in {FDiv(cw, videoRatio)}})

videoSide(side, default) == IF side # 0 THEN side ELSE default

\* lines 168-195
videoRectOf(cw, ch, vw, vh) ==
  IF vw = 0 \/ vh = 0
    THEN [x |-> Zero, y |-> Zero, w |-> cw, h |-> ch]
    ELSE Only({contain(cw, ch, videoRatio) :
                 videoRatio \in {FDiv(FromInt(vw), FromInt(vh))}})

\* getVideoRect(), lines 159-196; video.videoWidth and video.videoHeight are
\* 0 while the metadata is not loaded
getVideoRect ==
  IF ~wrapper THEN [x |-> Zero, y |-> Zero, w |-> Zero, h |-> Zero]
  ELSE Only({videoRectOf(cw, ch,
                         videoSide(video.videoWidth, DefaultVideoWidth),
                         videoSide(video.videoHeight, DefaultVideoHeight)) :
               cw \in {FromInt(wrapperRect.width)},
               ch \in {FromInt(wrapperRect.height)}})

\* ------------------------------------------------------------------ history
\* A payload is an object: a call of setFrameData passes a new one, named by
\* the least number that does not name the payload in the slot.
NewPayload == IF frameData = 1 THEN 2 ELSE 1

\* data lens.  trail holds the latest two operations that stored frame data
\* or rendered, oldest first.  A store is [op "set", id, data].  A render that
\* reached the surface is [op "render", tick (it came from a frame source),
\* called, id, data (what the draw callback was given), again (that payload
\* had been given to a draw callback before)]; failed says that the operation
\* warned or threw.  A tick that ran and did not reach the surface is
\* [op "skipped"].  Of the older of the two,
\* tick and again are not kept.  clear and destroy
\* empty the channel and start the trail afresh; other operations leave it.
NoEntry ==
  [op |-> "none", tick |-> FALSE, called |-> FALSE, id |-> Null,
   data |-> Null, again |-> FALSE, failed |-> FALSE, dark |-> FALSE]

Failed(s) == s.out.warn # "none" \/ s.out.threw

DataEntry(op, a, b, s) ==
  IF op = "setFrameData"
    THEN [NoEntry EXCEPT !.op = "set", !.id = a, !.data = b,
                         !.failed = Failed(s),
                         !.dark = /\ lens = "kept"
                                  /\ ~enabled \/ ~is_function(renderer)]
  ELSE IF s.out.renders > 0
    THEN [op |-> "render", tick |-> op \in {"raf", "rvfc"},
          called |-> s.out.called, id |-> s.out.id, data |-> s.out.data,
          again |-> s.out.called /\ s.out.data # Null /\ slotDelivered,
          failed |-> Failed(s), dark |-> FALSE]
  ELSE IF s.out.ran
    THEN [NoEntry EXCEPT !.op = "skipped", !.tick = TRUE]
  ELSE NoEntry

Older(e) ==
  [e EXCEPT !.tick = FALSE, !.again = FALSE]

DataTrail(op, a, b, s) ==
  LET e == DataEntry(op, a, b, s)
  IN IF e.op # "none"
       THEN IF trail = << >> THEN <<e>> ELSE <<Older(trail[Len(trail)]), e>>
     ELSE IF op \in {"clear", "destroy"} THEN << >>
     ELSE trail

\* kept lens.  trail holds the latest store if the overlay was then not
\* enabled or had no draw callback (the entry's dark), and after it the next
\* operation that rendered; any other store or render, a clear and a destroy
\* empty it.
KeptTrail(op, a, b, s) ==
  LET e == DataEntry(op, a, b, s)
  IN IF e.op = "set" THEN (IF e.dark THEN <<e>> ELSE << >>)
     ELSE IF e.op = "render"
       THEN IF Len(trail) = 1 /\ trail[1].op = "set"
              THEN <<trail[1], [e EXCEPT !.tick = FALSE]>>
              ELSE << >>
     ELSE IF op \in {"clear", "destroy"} THEN << >>
     ELSE trail

SlotDelivered(op, s) ==
  IF s.frameData = Null \/ op = "setFrameData" \/ s.out.did = "setFrameData"
    THEN FALSE
    ELSE slotDelivered \/ (s.out.called /\ s.out.data = s.frameData)

\* loop lens.  loopLast is the latest operation if it was a start (setup,
\* _startLoop), a stop (_stopLoop, destroy, also when the draw callback called
\* them) or a firing of a frame source, with the loop's state before it and
\* what it did (same: it left the loop as it was, running or not and with
\* the same callbacks registered); of any other operation only that it
\* happened.
LoopOp(op, s) ==
  CASE op \in {"setup", "_startLoop"} -> "start"
    [] op \in {"_stopLoop", "destroy"} -> "stop"
    [] op \in {"raf", "rvfc"} -> "fire"
    [] s.out.did \in {"_stopLoop", "destroy"} -> "stop"
    [] OTHER -> "other"

Pending(s) == Cardinality(s.rafPending) + Cardinality(s.vfcPending)

\* The 'overlayframe' notifications of a handler: "none", "first" (exactly
\* one, before anything else the handler did to the surface) or "other".
Heard(log) ==
  LET n == Cardinality({i \in DOMAIN log : log[i] = "notify"})
  IN IF n = 0 THEN "none"
     ELSE IF n = 1 /\ log[1] = "notify" THEN "first"
     ELSE "other"

NoLoopEntry ==
  [op |-> "other", name |-> "none", wasRunning |-> FALSE, wasStopped |-> FALSE,
   wasPending |-> 0, chosen |-> "none", ran |-> FALSE, renders |-> 0, called |-> FALSE,
   notified |-> FALSE, strategy |-> "none", rereg |-> "none", did |-> "none",
   warn |-> "none", threw |-> FALSE, same |-> TRUE, heard |-> "none"]

LoopEntry(op, s) ==
  IF LoopOp(op, s) = "other" THEN NoLoopEntry
  ELSE [op |-> LoopOp(op, s), name |-> op, wasRunning |-> _running,
        wasStopped |-> stopped, wasPending |-> Pending(This),
        chosen |-> chosen,
        ran |-> s.out.ran, renders |-> s.out.renders,
        called |-> s.out.called, notified |-> s.out.notified,
        strategy |-> s.out.strategy, rereg |-> s.out.rereg,
        did |-> s.out.did, warn |-> s.out.warn, threw |-> s.out.threw,
        same |-> \A f \in {"_running", "rafPending", "vfcPending"} :
                   s[f] = This[f],
        heard |-> Heard(s.out.log)]

\* The loop is Stopped: at first when the constructor did not start it, later
\* when a stop has returned and no start has followed.
Stopped(op, s) ==
  IF s.out.strategy # "none" THEN FALSE
  ELSE IF op \in {"_stopLoop", "destroy"}
          \/ s.out.did \in {"_stopLoop", "destroy"} THEN TRUE
  ELSE stopped

Chosen(op, s) ==
  IF s.out.strategy # "none" THEN s.out.strategy
  ELSE IF Stopped(op, s) THEN "none"
  ELSE chosen

\* ops lens: the latest operation if it was a call of the public interface
\* other than setFrameData, or an event the overlay listens to: its argument,
\* what it reported and the fields it changed; of any other operation only
\* that it happened.
NoNote ==
  [op |-> "other", a |-> Null, warn |-> "none", threw |-> FALSE,
   changed |-> {}]

Note(op, a, s) ==
  IF op \in {"raf", "rvfc", "setFrameData", "render", "_startLoop",
             "_stopLoop", "config", "media"}
    THEN NoNote
    ELSE [op |-> op, a |-> a, warn |-> s.out.warn, threw |-> s.out.threw,
          changed |-> {f \in Fields : s[f] # This[f]}]

\* The lenses "resize", "clear" and "public" keep in life the latest
\* operation, when it is one the lens watches, with what it found (the
\* overlay ready, a canvas, a pair in the slot, a draw callback) and what it
\* did: the log of the handler, its renders, whether the draw callback was
\* called, whether it was given a payload (gotSome) and the very pair the
\* slot held (passedHeld), whether the handler threw, whether it changed no
\* field at all (kept) or none but the slot's (onlySlot).  Of an operation
\* the lens does not watch only that it happened is kept (op "other").
\*   "resize" watches resize() and the three events that call it;
\*   "clear" watches clear() and the handler right after a clear (prev);
\*   "public" watches the public operations (op "public"; the events call
\*     resize()), keeps of setup and destroy the name, wasReady, prev (a
\*     destroy came right before) and kept, and sets private for
\*     good once the host or the draw callback has called _startLoop or
\*     _stopLoop directly.
PublicOps ==
  {"setup", "destroy", "resize", "render", "clear", "setFrameData",
   "setRenderer"}

Events == {"enterfullscreen", "exitfullscreen"}

NoLife ==
  [op |-> "new", prev |-> "other", private |-> FALSE, wasReady |-> FALSE,
   hadCanvas |-> FALSE, heldSome |-> FALSE, hadRenderer |-> FALSE,
   log |-> << >>, renders |-> 0, called |-> FALSE, gotSome |-> FALSE,
   passedHeld |-> FALSE, threw |-> FALSE, kept |-> TRUE, onlySlot |-> TRUE]

Other == [NoLife EXCEPT !.op = "other"]

Private(op, s) ==
  life.private \/ op \in {"_startLoop", "_stopLoop"} \/ s.out.did = "_stopLoop"

Changed(s) == {f \in Fields : s[f] # This[f]}

Watched(op, s) ==
  [op |-> op, prev |-> "other", private |-> FALSE,
   wasReady |-> ready, hadCanvas |-> canvas,
   heldSome |-> frameData # Null,
   hadRenderer |-> is_function(renderer),
   log |-> s.out.log, renders |-> s.out.renders,
   called |-> s.out.called, gotSome |-> s.out.data # Null,
   passedHeld |-> /\ s.out.called
                  /\ s.out.data = frameData /\ s.out.id = activeFrameId,
   threw |-> s.out.threw,
   kept |-> Changed(s) = {},
   onlySlot |-> Changed(s) \subseteq {"frameData", "activeFrameId"}]

ResizeEntry(op, s) ==
  IF op \in {"resize"} \cup Events THEN Watched(op, s) ELSE Other

ClearEntry(op, s) ==
  IF op = "clear" THEN Watched(op, s)
  ELSE IF life.op = "clear" /\ s.out.renders > 0
    THEN [Other EXCEPT !.op = "render", !.prev = "clear",
                       !.renders = s.out.renders, !.called = s.out.called,
                       !.gotSome = s.out.data # Null]
  ELSE Other

PublicEntry(op, s) ==
  IF op \in {"setup", "destroy"}
    THEN [Other EXCEPT !.op = op, !.private = Private(op, s),
                       !.prev = IF life.op = "destroy" THEN life.op ELSE "other",
                       !.wasReady = ready, !.threw = s.out.threw,
                       !.kept = Changed(s) = {}]
    ELSE [Other EXCEPT !.op = IF op \in PublicOps \cup Events
                                THEN "public" ELSE "other",
                       !.private = Private(op, s)]

LifeEntry(op, s) ==
  CASE lens = "resize" -> ResizeEntry(op, s)
    [] lens = "clear" -> ClearEntry(op, s)
    [] lens = "public" -> PublicEntry(op, s)
    [] OTHER -> life

Record(op, a, b, s) ==
  /\ lens' = lens
  /\ life' = LifeEntry(op, s)
  /\ trail' = IF lens = "data" THEN DataTrail(op, a, b, s)
               ELSE IF lens = "kept" THEN KeptTrail(op, a, b, s)
               ELSE trail
  /\ slotDelivered' = IF lens = "data" THEN SlotDelivered(op, s)
                                        ELSE slotDelivered
  /\ loopLast' = IF lens = "loop" THEN LoopEntry(op, s) ELSE loopLast
  /\ stopped' = IF lens = "loop" THEN Stopped(op, s) ELSE stopped
  /\ chosen' = IF lens = "loop" THEN Chosen(op, s) ELSE chosen
  /\ note' = IF lens = "ops" THEN Note(op, a, s) ELSE note

\* ------------------------------------------------------------ the actions
Put(s) ==
  /\ canvas' = s.canvas /\ ctx' = s.ctx /\ enabled' = s.enabled
  /\ ready' = s.ready /\ frameData' = s.frameData
  /\ activeFrameId' = s.activeFrameId /\ renderer' = s.renderer
  /\ _rafId' = s._rafId /\ _rvfcId' = s._rvfcId /\ _running' = s._running
  /\ rafPending' = s.rafPending /\ vfcPending' = s.vfcPending
  /\ listeners' = s.listeners

\* One handler, run to completion.
Do(op, a, b, s) ==
  \E done \in {s} :
    /\ \E next \in {Norm(done)} : Put(next)
    /\ Record(op, a, b, done)
    /\ UNCHANGED <<envVars, geoVars>>

\* What the draw callback may do when the handler calls it: nothing, or one
\* call of the overlay (no stop or destroy while setup() runs).
CallbackActs ==
  {NoAct, [call |-> "clear", arg |-> Null, data |-> Null],
   [call |-> "_stopLoop", arg |-> Null, data |-> Null],
   [call |-> "destroy", arg |-> Null, data |-> Null]}
    \cup [call : {"setFrameData"}, arg : FrameIds, data : {NewPayload}]
    \cup [call : {"setRenderer"}, arg : Functions \cup {Null}, data : {Null}]

Acts(calls, inSetup) ==
  IF ~calls THEN {NoAct}
  ELSE {act \in CallbackActs : act.call \in {"_stopLoop", "destroy"} => ~inSetup}

Surface == ctx /\ canvas /\ wrapper
Draws == Surface /\ is_function(renderer)
\* A handler that registers a callback with a frame source finds room for it.
Room(s) == Pending(s) > Pending(This) => Pending(s) <= MaxPending

Setup ==
  \E gotCtx \in BOOLEAN :
    \E act \in Acts(isVideo /\ ~ready /\ wrapper /\ gotCtx
                      /\ is_function(renderer), TRUE) :
      LET s == setup(This, gotCtx, act)
      IN Room(s) /\ Do("setup", gotCtx, Null, s)

Destroy == Do("destroy", Null, Null, destroy(This))

Resize == \E act \in Acts(Draws, FALSE) : Do("resize", Null, Null, resize(This, act))

\* the window's resize event and the player's fullscreen events, lines 118-122
ResizeEvent ==
  \E e \in listeners :
    \E act \in Acts(Draws, FALSE) : Do(e, Null, Null, resize(This, act))

Render == \E act \in Acts(Draws, FALSE) : Do("render", Null, Null, render(This, act))

Clear == Do("clear", Null, Null, clear(This))

SetFrameData ==
  \E frameId \in FrameIds :
    Do("setFrameData", frameId, NewPayload,
       setFrameData(This, frameId, NewPayload))

SetRenderer ==
  \E v \in RendererArgs : Do("setRenderer", v, Null, setRenderer(This, v))

\* direct calls of the scheduler's start (on an overlay that is set up) and stop
StartLoop ==
  /\ ready
  /\ LET s == _startLoop(This) IN Room(s) /\ Do("_startLoop", Null, Null, s)

StopLoop == Do("_stopLoop", Null, Null, _stopLoop(This))

\* the display refreshes: the browser runs one pending animation-frame callback
FireRaf ==
  \E id \in rafPending :
    \E act \in Acts(_running /\ Draws, FALSE) :
      Do("raf", id, Null, loop(This, id, act))

\* the video presents a frame: the browser runs one pending video-frame callback
FireVfc ==
  \E id \in vfcPending :
    \E act \in Acts(_running /\ Draws, FALSE) :
      Do("rvfc", id, Null, callback(This, id, act))

\* the host changes the configuration flag
SetFlag ==
  /\ useVideoFrameCallback' = ~useVideoFrameCallback
  /\ Record("config", Null, Null, This)
  /\ UNCHANGED <<objVars, hostVars, geoVars, isVideo, wrapper, vfcApi>>

\* the media gains or loses the video-frame callback API
SetApi ==
  /\ vfcApi' = ~vfcApi
  /\ Record("media", Null, Null, This)
  /\ UNCHANGED <<objVars, hostVars, geoVars, isVideo, wrapper,
                 useVideoFrameCallback>>

\* the sizes tried: the small ones, and sizes of the kind pages and videos have
ContainerSides == (1..MaxSide) \cup {11, 15, 450, 800}
VideoSides == (0..MaxSide) \cup {11, 15, 1080, 1920}

\* the page lays the wrapper out anew
Layout ==
  /\ wrapperRect' \in [width : ContainerSides, height : ContainerSides]
  /\ rect' = NoRect
  /\ UNCHANGED <<objVars, hostVars, envVars, histVars, video>>

\* the video's metadata arrives, or its source changes
LoadedMetadata ==
  /\ video' \in [videoWidth : VideoSides, videoHeight : VideoSides]
  /\ rect' = NoRect
  /\ UNCHANGED <<objVars, hostVars, envVars, histVars, wrapperRect>>

\* a call of getVideoRect(), as render() makes at line 315
GetVideoRect ==
  /\ rect' = getVideoRect
  /\ UNCHANGED <<objVars, hostVars, envVars, histVars, wrapperRect, video>>

InitFrom(s) ==
  /\ canvas = s.canvas /\ ctx = s.ctx /\ enabled = s.enabled
  /\ ready = s.ready /\ frameData = s.frameData
  /\ activeFrameId = s.activeFrameId /\ renderer = s.renderer
  /\ _rafId = s._rafId /\ _rvfcId = s._rvfcId /\ _running = s._running
  /\ rafPending = s.rafPending /\ vfcPending = s.vfcPending
  /\ listeners = s.listeners

\* The state after `new Overlay(player)`: lines 16-37, then setup() when
\* player.config.overlay.enabled (lines 40-42).
Constructed ==
  /\ isVideo \in BOOLEAN /\ wrapper \in BOOLEAN
  /\ useVideoFrameCallback \in BOOLEAN /\ vfcApi \in BOOLEAN
  /\ \E configEnabled \in BOOLEAN :
       InitFrom(IF configEnabled THEN setup(Blank, TRUE, NoAct) ELSE Blank)
  /\ trail = << >> /\ slotDelivered = FALSE
  /\ loopLast = NoLoopEntry /\ stopped = ~_running
  /\ chosen = IF ~_running THEN "none"
              ELSE IF _rvfcId # Null THEN "rvfc" ELSE "raf"
  /\ note = NoNote /\ life = NoLife

\* a wrapper of 800 by 450 pixels, a video whose metadata is not loaded
GeometryIdle ==
  /\ wrapperRect = [width |-> 800, height |-> 450]
  /\ video = [videoWidth |-> 0, videoHeight |-> 0]
  /\ rect = NoRect

Init == Constructed /\ GeometryIdle /\ lens = "data"
InitLoop == Constructed /\ GeometryIdle /\ lens = "loop"
InitOps == Constructed /\ GeometryIdle /\ lens = "ops"
InitKept == Constructed /\ GeometryIdle /\ lens = "kept"
InitResize == Constructed /\ GeometryIdle /\ lens = "resize"
InitClear == Constructed /\ GeometryIdle /\ lens = "clear"
InitPublic == Constructed /\ GeometryIdle /\ lens = "public"

\* the geometry on its own: an overlay that is set up and drawing
InitRect ==
  /\ Constructed /\ GeometryIdle /\ lens = "rect"
  /\ isVideo /\ wrapper /\ ready /\ useVideoFrameCallback /\ vfcApi

Next ==
  \/ Setup \/ Destroy \/ Resize \/ ResizeEvent \/ Render \/ Clear
  \/ SetFrameData \/ SetRenderer \/ StartLoop \/ StopLoop
  \/ FireRaf \/ FireVfc \/ SetFlag \/ SetApi

NextRect == Layout \/ LoadedMetadata \/ GetVideoRect

\* the overlay, watched for what happens to frame data
Spec == Init /\ [][Next]_vars
\* the overlay, watched for what becomes of data stored while it was not
\* enabled or had no draw callback
SpecKept == InitKept /\ [][Next]_vars
\* the overlay, watched for what the render loop does
SpecLoop == InitLoop /\ [][Next]_vars
\* the same, with frame sources that keep firing the callbacks registered
\* with them: the display refreshes, the video presents frames
SpecLoopFair == SpecLoop /\ WF_vars(FireRaf) /\ WF_vars(FireVfc)
\* the overlay, watched for what each operation changes
SpecOps == InitOps /\ [][Next]_vars
\* the overlay, watched for what resize(), clear() and the public
\* operations find and do
SpecResize == InitResize /\ [][Next]_vars
SpecClear == InitClear /\ [][Next]_vars
SpecPublic == InitPublic /\ [][Next]_vars
\* the geometry of the visible rectangle
SpecRect == InitRect /\ [][NextRect]_vars

TypeOK ==
  /\ canvas \in BOOLEAN /\ ctx \in BOOLEAN /\ enabled \in BOOLEAN
  /\ ready \in BOOLEAN /\ _running \in BOOLEAN
  /\ activeFrameId \in {Null} \cup FrameIds
  /\ renderer \in Functions \cup {Null}
\* ------------------------------------------------------------------ claims
Last == trail[Len(trail)]

\* C1.  Consume-once delivery.  When a render gives the draw callback
\* something and the operation before it stored (id, p), the callback gets
\* exactly id and p; when the operation before it was itself a render, the
\* callback gets no payload and no frame id.  No render gives the callback a
\* payload that a callback was given before.
C1_ConsumeOnce ==
  /\ \A i \in DOMAIN trail : ~trail[i].again
  /\ Len(trail) = 2 /\ Last.op = "render" /\ Last.called =>
       IF trail[1].op = "set"
         THEN Last.id = trail[1].id /\ Last.data = trail[1].data
         ELSE Last.id = Null /\ Last.data = Null

\* Two ticks in a row, both calling the draw callback: the first was given a
\* payload, the second none.
C1_SecondTickEmpty ==
  /\ Len(trail) = 2
  /\ trail[1].op = "render" /\ trail[1].called /\ trail[1].data # Null
  /\ Last.op = "render" /\ Last.tick /\ Last.called /\ Last.data = Null

\* C2.  Last-write-wins single slot.  The frame id and the payload are held
\* or absent together; after a store the slot holds exactly the pair of that
\* store, whatever it held before; a render gives the draw callback a payload
\* only when the operation before it stored that payload, and then with the
\* frame id stored with it; no store warns or throws.
C2_LastWriteWins ==
  /\ (frameData = Null) = (activeFrameId = Null)
  /\ \A i \in DOMAIN trail : trail[i].op = "set" => ~trail[i].failed
  /\ trail # << >> /\ Last.op = "set" =>
       frameData = Last.data /\ activeFrameId = Last.id
  /\ trail # << >> /\ Last.op = "render" /\ Last.called /\ Last.data # Null =>
       /\ Len(trail) = 2 /\ trail[1].op = "set"
       /\ trail[1].data = Last.data /\ trail[1].id = Last.id

\* Two stores in a row with different frame ids, on an overlay that would
\* draw: the slot holds the second pair.
C2_Overwritten ==
  /\ Len(trail) = 2 /\ trail[1].op = "set" /\ Last.op = "set"
  /\ trail[1].id # Last.id /\ trail[1].data # Last.data
  /\ frameData = Last.data /\ activeFrameId = Last.id
  /\ Draws

\* C3.  A render calls the draw callback only when the channel holds data.
C3_CalledOnlyWithData ==
  trail # << >> /\ Last.op = "render" /\ Last.tick /\ Last.called =>
    Last.data # Null

C5_StartStopIdempotent ==
  /\ loopLast.op = "start" /\ loopLast.wasRunning => loopLast.same
  /\ loopLast.op = "start" /\ _running => Pending(This) = 1
  /\ loopLast.op = "fire" /\ loopLast.ran => loopLast.renders = 1
  /\ loopLast.op = "stop" /\ loopLast.wasStopped => loopLast.same

\* C6.  After a stop or destroy has returned and until the next start, a
\* callback that a frame source still fires does nothing: no render, no call
\* of the draw callback, no overlayframe notification.
C6_NoTickAfterStop ==
  loopLast.op = "fire" /\ loopLast.wasStopped =>
    /\ ~loopLast.ran /\ loopLast.renders = 0
    /\ ~loopLast.called /\ ~loopLast.notified

\* A video-frame callback that was registered before the stop fired after
\* it, and nothing ran.
C6_FiredAfterStop ==
  /\ loopLast.op = "fire" /\ loopLast.name = "rvfc" /\ loopLast.wasStopped
  /\ ~loopLast.ran /\ ~loopLast.called

\* C7.  Strategy of a run.  A start that starts the loop chooses the
\* video-frame strategy exactly when the configuration prefers it and the
\* media has the API, and neither warns nor throws; every tick of the run
\* registers its successor with the strategy that start chose.
C7_StrategyOfRun ==
  /\ loopLast.op = "start" /\ loopLast.strategy # "none" =>
       /\ (loopLast.strategy = "rvfc") = preferVideoFrames
       /\ loopLast.strategy \in {"rvfc", "raf"}
       /\ loopLast.warn = "none" /\ ~loopLast.threw
  /\ loopLast.op = "fire" /\ loopLast.ran => loopLast.rereg = loopLast.chosen

\* C8.  setRenderer(v).  When v is a function or null the draw callback
\* becomes v, without warning; when v is anything else the call warns, does
\* not throw, and changes no field of the overlay.
C8_SetRendererChecked ==
  note.op = "setRenderer" =>
    /\ ~note.threw
    /\ IF is_function(note.a) \/ note.a = Null
         THEN /\ renderer = note.a /\ note.warn = "none"
              /\ note.changed \subseteq {"renderer"}
         ELSE note.warn # "none" /\ note.changed = {}

\* setRenderer was given something that is neither a function nor null
\* while a draw callback was registered, and the callback is still there.
C8_Rejected ==
  /\ note.op = "setRenderer" /\ note.a = NotAFunction
  /\ note.warn = "Overlay renderer must be a function or null"
  /\ is_function(renderer)


\* ------------------------------------------------- the visible rectangle
\* The numbers of a rectangle are doubles; the comparisons below are made on
\* their exact values.
Computed == "none" \notin DOMAIN rect

NonNegative(a) == ~a.neg \/ a.m = << >>

SumOf(p) == [neg |-> FALSE, m |-> BigAdd(p.a, p.b), e |-> p.e]

\* a + b, exactly, for a, b >= 0
ExactSum(a, b) == SumOf(Aligned(a, b))

AtMost(p) == BigCmp(p.a, p.b) <= 0

\* a <= b, for a, b >= 0
ExactLe(a, b) == AtMost(Aligned(a, b))

Same(p) == BigCmp(p.a, p.b) = 0

\* a = b, for a, b >= 0
ExactEq(a, b) == Same(Aligned(a, b))

\* a * k, exactly, for an integer 0 < k < 2^15
Times(a, k) == [a EXCEPT !.m = BigMulSmall(@, k)]

FullContainer ==
  [x |-> Zero, y |-> Zero,
   w |-> FromInt(wrapperRect.width), h |-> FromInt(wrapperRect.height)]

\* C9. When the video's intrinsic width or height is zero (unknown), the
\* rectangle that getVideoRect returns is the full container rectangle
\* {0, 0, containerWidth, containerHeight}, whatever the container's size.
C9_FallbackFullContainer ==
  (Computed /\ (video.videoWidth = 0 \/ video.videoHeight = 0))
    => rect = FullContainer

\* x >= 0, y >= 0, x + w <= containerWidth, y + h <= containerHeight
Inside ==
  /\ NonNegative(rect.x) /\ NonNegative(rect.y)
  /\ ExactLe(ExactSum(rect.x, rect.w), FromInt(wrapperRect.width))
  /\ ExactLe(ExactSum(rect.y, rect.h), FromInt(wrapperRect.height))

\* the bars on both sides of the rectangle are equal, on either axis
Centred ==
  /\ NonNegative(rect.x) /\ NonNegative(rect.y)
  /\ ExactEq(ExactSum(ExactSum(rect.x, rect.x), rect.w),
             FromInt(wrapperRect.width))
  /\ ExactEq(ExactSum(ExactSum(rect.y, rect.y), rect.h),
             FromInt(wrapperRect.height))

\* w * contentHeight = h * contentWidth
AspectKept ==
  ExactEq(Times(rect.w, video.videoHeight), Times(rect.h, video.videoWidth))

\* container 800x800, content 1920x1080: {x: 0, y: 175, w: 800, h: 450}
Example ==
  (wrapperRect = [width |-> 800, height |-> 800]
     /\ video = [videoWidth |-> 1920, videoHeight |-> 1080])
    => rect = [x |-> Zero, y |-> FromInt(175),
               w |-> FromInt(800), h |-> FromInt(450)]

\* C10. For positive container and content sizes the rectangle returned by
\* getVideoRect lies inside the container, is centred on the axis that has
\* bars, keeps the content's aspect ratio (w * contentHeight equals
\* h * contentWidth), and for a container of 800x800 with content of
\* 1920x1080 it is {x: 0, y: 175, w: 800, h: 450}.
C10_InsideCentredAspect ==
  (Computed /\ video.videoWidth > 0 /\ video.videoHeight > 0)
    => (Inside /\ Centred /\ AspectKept /\ Example)

\* ------------------------------------------------------------ the lifecycle
\* C11.  setup() in an unsupported context (the player is not a video, there
\* is no wrapper element, or canvas.getContext('2d') gives no context) does
\* not throw, logs a warning, and leaves the overlay inert: not ready and the
\* loop not running.
C11_SetupAbortsQuietly ==
  note.op = "setup" /\ (~isVideo \/ ~wrapper \/ (~note.a /\ ~ready)) =>
    /\ ~note.threw /\ note.warn # "none"
    /\ ~ready /\ ~_running

C13_ClearNow ==
  /\ life.op = "clear" =>
       /\ frameData = Null /\ activeFrameId = Null
       /\ life.onlySlot /\ ~life.threw
       /\ life.renders = 0 /\ ~life.called
       /\ life.log = IF Surface THEN <<"clearRect">> ELSE << >>
  /\ life.op = "render" /\ life.prev = "clear" => ~life.gotSome

\* clear() on a running overlay that held a pair and had a draw callback
C13_ClearedHeldData ==
  /\ life.op = "clear" /\ life.heldSome /\ life.hadRenderer
  /\ Surface /\ _running /\ is_function(renderer)
  /\ frameData = Null /\ life.log = <<"clearRect">>

\* ---------------------------------------------------------------- the loop
\* C14.  While the video-frame strategy is the one the latest start chose,
\* every tick emits exactly one 'overlayframe' notification, before its
\* render; a tick of the display-refresh strategy emits none; a callback
\* fired while the loop is Stopped emits none.
C14_NotifiedPerTick ==
  /\ loopLast.op = "fire" /\ loopLast.ran /\ loopLast.chosen = "rvfc" =>
       loopLast.heard = "first" /\ loopLast.renders = 1
  /\ loopLast.op = "fire" /\ loopLast.name = "raf" => loopLast.heard = "none"
  /\ loopLast.op = "fire" /\ loopLast.wasStopped => loopLast.heard = "none"

\* C15.  Stop revokes.  When a handler in which _stopLoop() or destroy() ran
\* (called by the host, or by the draw callback during a render or a tick)
\* has finished, no callback is registered with either frame source and
\* _rafId and _rvfcId are both null.
C15_StopRevokes ==
  (\/ loopLast.op = "stop"
   \/ loopLast.op = "fire" /\ loopLast.did \in {"_stopLoop", "destroy"}) =>
    /\ Pending(This) = 0
    /\ _rafId = Null /\ _rvfcId = Null

C17_NeverBuffered ==
  /\ Len(trail) = 2 /\ trail[1].op = "set" /\ trail[1].dark
  /\ Last.op = "render" /\ Last.called
  => Last.data # trail[1].data

\* C18.  After destroy() has returned, none of the listeners that setup()
\* bound (window 'resize', 'enterfullscreen', 'exitfullscreen') is still
\* registered.
C18_DestroyUnbindsAll ==
  note.op = "destroy" => listeners = {}

\* C19.  Single live loop.  In every state the host reaches through the
\* public operations, the events and the frame sources (no direct call of
\* _startLoop or _stopLoop), a Running loop has exactly one callback
\* registered with the frame sources.
C19_SingleLiveLoop ==
  ~life.private /\ _running => Pending(This) = 1

\* C20.  Lifecycle consistency.  After the constructor and after every public
\* operation (the host having made no direct call of _startLoop or
\* _stopLoop) the overlay is ready exactly when it is enabled, exactly when
\* it has a canvas, exactly when it has a drawing context and exactly when
\* the loop is Running; setup() on a ready overlay changes nothing; a
\* destroy() right after a destroy() changes nothing.
Consistent ==
  /\ ready = enabled /\ enabled = canvas
  /\ canvas = ctx /\ ctx = _running

C20_LifecycleConsistent ==
  /\ ~life.private /\ life.op \in {"new", "public", "setup", "destroy"} =>
       Consistent
  /\ life.op = "setup" /\ life.wasReady => life.kept
  /\ life.op = "destroy" /\ life.prev = "destroy" => life.kept

=============================================================================
